---- MODULE Spec2Model ----
(***************************************************************************)
(* A model of the code-analysis report generator: main.py (run, the batch  *)
(* loop over a cloned repository, clean_text, generate_docx_report) and    *)
(* crew.py (Codesystem.crew, Codesystem.kickoff, Codesystem.save_report).  *)
(*                                                                         *)
(* Four specifications share the module:                                   *)
(*   Spec        run(): clone, walk, per-file pipeline, cleanup            *)
(*   SpecCrew    Codesystem.crew(): building the task list                 *)
(*   SpecClean   clean_text applied once and twice                         *)
(*   SpecReport  save_report / generate_docx_report document structure     *)
(*                                                                         *)
(* Text is a sequence of one-character strings, so that splitting,         *)
(* stripping and substitution are computed character by character.         *)
(***************************************************************************)
EXTENDS Integers, Sequences, FiniteSets, TLC

VARIABLES
    \* ---- run() (main.py) ----
    pc,          \* position in run()
    github_url,  \* argument of run(): None or a URL
    file_path,   \* argument of run(), later the loop variable of line 133
    remote,      \* the files of the remote repository, in os.walk order
    repo_path,   \* local of run(): None or the temporary directory
    tempdirs,    \* temporary directories that exist on disk
    code_files,  \* local of run(): the list get_code_files returned
    idx,         \* position of the for loop of line 133 in code_files
    result,      \* local of run(): <<>> while unbound, <<v>> once line 144 assigned v
    kickoffs,    \* every Codesystem.kickoff call so far, in order
    warned,      \* files read_code_file printed a warning for
    reports,     \* the reports directory: artifact path -> source file
    clock,       \* the last value datetime.now() returned (seconds)
    exc,         \* the exception in flight, or "none"
    outcome,     \* how run() ended: "running", "returned" or "raised"
    retval,      \* <<v>> once run() returned v, <<>> before and when it raised
    \* ---- Codesystem.crew() (crew.py) ----
    tasks_config,  \* the ordered task definition mapping
    agents_config, \* the names of the agent definition mapping
    crew_out,      \* what crew() produced: its status, the task list and the name map
    \* ---- clean_text (main.py) ----
    text,        \* the argument of clean_text
    once,        \* clean_text(text), once applied
    twice,       \* clean_text(clean_text(text)), once applied
    applied,     \* how many times clean_text has been applied: 0, 1 or 2
    \* ---- save_report / generate_docx_report ----
    content,     \* the text handed to save_report, or an analysis output
    inputs,      \* the inputs mapping handed to generate_docx_report
    doc,         \* the elements of the written document, in order
    written_by   \* which function wrote doc: "none", "save_report", "generate_docx_report"

run_vars    == <<pc, github_url, file_path, remote, repo_path, tempdirs, code_files,
                 idx, result, kickoffs, warned, reports, clock, exc, outcome, retval>>
crew_vars   == <<tasks_config, agents_config, crew_out>>
clean_vars  == <<text, once, twice, applied>>
report_vars == <<content, inputs, doc, written_by>>
vars        == <<run_vars, crew_vars, clean_vars, report_vars>>

\* ------------------------------------------------------------------ bounds
MaxFiles == 3
MaxClock == 2
MaxDeps == 2
MaxTextLen == 5
MaxContentLen == 7

\* ------------------------------------------------------------ characters
LF == "\n"
CR == "\r"
BS == "\\"
SP == " "
TAB == "\t"

\* Python's None where a string is expected, and where a path is expected
None == "None"
NoPath == <<>>

\* str.strip() without arguments removes these (of the characters modelled)
Whitespace == {SP, LF, CR, TAB}

SeqsUpTo(S, n) == UNION {[1..k -> S] : k \in 0..n}

\* ------------------------------------------------- Python string methods
DropFrom(s, i) == SubSeq(s, i, Len(s))

RECURSIVE LStrip(_)
LStrip(s) ==
    IF s # <<>> /\ s[1] \in Whitespace THEN LStrip(Tail(s)) ELSE s

RECURSIVE RStrip(_)
RStrip(s) ==
    IF s # <<>> /\ s[Len(s)] \in Whitespace THEN RStrip(SubSeq(s, 1, Len(s) - 1)) ELSE s

\* str.strip()
Strip(s) == RStrip(LStrip(s))

\* str.find(sep): the least index where sep starts in s, 0 when there is none
FindSep(s, sep) ==
    LET hits == {i \in 1..(Len(s) - Len(sep) + 1) : SubSeq(s, i, i + Len(sep) - 1) = sep}
    IN  IF hits = {} THEN 0 ELSE CHOOSE i \in hits : \A j \in hits : i <= j

\* str.split(sep): every non-overlapping occurrence, left to right
RECURSIVE SplitAll(_, _)
SplitAll(s, sep) ==
    LET i == FindSep(s, sep)
    IN  IF i = 0 THEN <<s>>
        ELSE <<SubSeq(s, 1, i - 1)>> \o SplitAll(DropFrom(s, i + Len(sep)), sep)

\* str.split(sep, 1): at most one split
SplitOnce(s, sep) ==
    LET i == FindSep(s, sep)
    IN  IF i = 0 THEN <<s>>
        ELSE <<SubSeq(s, 1, i - 1), DropFrom(s, i + Len(sep))>>

\* str.replace(c, ''): every occurrence of the character removed
RemoveChar(s, c) == SelectSeq(s, LAMBDA x : x # c)

\* re.sub of the two-character literal <<a, b>> by rep, leftmost first
RECURSIVE SubPair(_, _, _, _)
SubPair(s, a, b, rep) ==
    IF s = <<>> THEN <<>>
    ELSE IF Len(s) >= 2 /\ s[1] = a /\ s[2] = b
         THEN rep \o SubPair(DropFrom(s, 3), a, b, rep)
         ELSE <<s[1]>> \o SubPair(Tail(s), a, b, rep)

\* re.sub(r'\n+', '\n', s): every maximal run of line feeds becomes one
RECURSIVE CollapseNewlines(_)
CollapseNewlines(s) ==
    IF s = <<>> THEN <<>>
    ELSE IF s[1] = LF /\ Len(s) >= 2 /\ s[2] = LF
         THEN CollapseNewlines(Tail(s))
         ELSE <<s[1]>> \o CollapseNewlines(Tail(s))

\* ---------------------------------------------------- main.py clean_text
clean_text(t) ==
    LET t1 == SubPair(t, BS, "n", <<SP>>)
        t2 == SubPair(t1, BS, "t", <<SP, SP, SP, SP>>)
        t3 == CollapseNewlines(t2)
        t4 == RemoveChar(t3, CR)
    IN  Strip(t4)

\* ------------------------------------------------------------ file paths
\* The files a remote repository may hold, relative to its root.  Two share
\* the final component u.py, one has a stem that needs sanitising, one is
\* not a code file.
RemoteFiles ==
    { <<"a", "/", "u", ".", "p", "y">>,
      <<"b", "/", "u", ".", "p", "y">>,
      <<"v", " ", "w", ".", "j", "s">>,
      <<"r", ".", "m", "d">> }

TempDir == "tmpdir"
Url == "https://host/repo"

\* Path(root) / file, for a file below the walked root
JoinPath(root, rel) == <<root, "/">> \o rel

\* the index of the last occurrence of c in s, 0 when there is none (rfind)
LastIndexOf(s, c) ==
    LET hits == {i \in 1..Len(s) : s[i] = c}
    IN  IF hits = {} THEN 0 ELSE CHOOSE i \in hits : \A j \in hits : j <= i

\* PurePath.name: the final path component
PathName(p) == DropFrom(p, LastIndexOf(p, "/") + 1)

\* PurePath.suffix: from the last dot of the name, unless the dot leads or ends it
PathSuffix(p) ==
    LET name == PathName(p)
        i == LastIndexOf(name, ".")
    IN  IF 1 < i /\ i < Len(name) THEN DropFrom(name, i) ELSE <<>>

\* PurePath.stem: the name without its suffix
PathStem(p) ==
    LET name == PathName(p)
        i == LastIndexOf(name, ".")
    IN  IF 1 < i /\ i < Len(name) THEN SubSeq(name, 1, i - 1) ELSE name

code_extensions ==
    { <<".", "p", "y">>, <<".", "j", "s">>, <<".", "j", "a", "v", "a">>,
      <<".", "c", "p", "p">>, <<".", "c">>, <<".", "h">>, <<".", "h", "p", "p">>,
      <<".", "c", "s">>, <<".", "r", "b">>, <<".", "g", "o">>, <<".", "r", "s">>,
      <<".", "p", "h", "p">> }

\* main.py get_code_files: the walked files whose suffix is a code extension
get_code_files(root, files) ==
    SelectSeq([i \in 1..Len(files) |-> JoinPath(root, files[i])],
              LAMBDA p : PathSuffix(p) \in code_extensions)

\* the characters [\w\-_] keeps (of the characters modelled)
WordChars ==
    { "a", "b", "c", "d", "e", "f", "g", "h", "i", "j", "k", "l", "m", "n", "o",
      "p", "q", "r", "s", "t", "u", "v", "w", "x", "y", "z",
      "0", "1", "2", "3", "4", "5", "6", "7", "8", "9", "_", "-" }

\* re.sub(r'[^\w\-_]', '_', base_name)
Sanitize(s) == [i \in 1..Len(s) |-> IF s[i] \in WordChars THEN s[i] ELSE "_"]

\* crew.py save_report, lines 29-39: the artifact path.  The record stands for
\* the string name + timestamp + ext; the timestamp has a fixed width, so two
\* such strings are equal exactly when the records are.
ArtifactPath(file_name, filename_base, now) ==
    IF file_name # <<>>
    THEN [name |-> Sanitize(PathStem(file_name)) \o <<"_analysis_">>,
          timestamp |-> now, ext |-> ".docx"]
    ELSE [name |-> <<filename_base, "_">>, timestamp |-> now, ext |-> ".docx"]

\* document.save(path): the file at path is created or replaced
SaveAt(dir, path, src) ==
    {f \in dir : f.path # path} \cup {[path |-> path, from |-> src]}

\* -------------------------------------------------- states left untouched
CrewIdle ==
    /\ tasks_config = <<>>
    /\ agents_config = {}
    /\ crew_out = [status |-> "not_built", tasks |-> <<>>, task_outputs |-> <<>>]

CleanIdle == text = <<>> /\ once = <<>> /\ twice = <<>> /\ applied = 0

ReportIdle == content = <<>> /\ inputs = <<>> /\ doc = <<>> /\ written_by = "none"

RunIdle ==
    /\ pc = "idle" /\ github_url = None /\ file_path = NoPath /\ remote = <<>>
    /\ repo_path = None /\ tempdirs = {} /\ code_files = <<>> /\ idx = 1
    /\ result = <<>> /\ kickoffs = <<>> /\ warned = {} /\ reports = {}
    /\ clock = 0 /\ exc = "none" /\ outcome = "running" /\ retval = <<>>

\* ================================================================ run()
\* what read_code_file returns: None (with a warning), '' or the code
ReadOutcomes == {None, "", "code"}

\* what crew.kickoff does inside Codesystem.kickoff: raise, or return a falsy
\* or a non-empty result
PipelineOutcomes == {"raise", "falsy", "text"}

\* main.py line 137, `if code_content:`
Truthy(code_content) == code_content \notin {None, ""}

\* a loop that swallowed the pipeline's exception and went on (not the code's)
ContinueAlways(out) == "loop"

\* main.py line 144: where control goes after codesystem.kickoff, whose
\* exception nothing in the loop catches
AfterKickoff(out) == IF out = "raise" THEN "finally" ELSE "loop"

\* an assignment that kept the first result (not the code's)
KeepFirst(old, new) == IF old = <<>> THEN <<new>> ELSE old

\* main.py line 144: the assignment `result = codesystem.kickoff(...)`
AssignResult(old, new) == <<new>>

\* crew.py kickoff, lines 128-148, on the reports directory and the clock:
\* save_report runs only for a truthy result and reads the clock once
Kickoff(file_name, code, out, now) ==
    /\ kickoffs' = Append(kickoffs, [file_name |-> file_name, code |-> code, out |-> out])
    /\ IF out = "text"
       THEN /\ clock' = now
            /\ reports' = SaveAt(reports,
                                 ArtifactPath(file_name, "code_analysis_report", now),
                                 file_name)
       ELSE UNCHANGED <<clock, reports>>

RunInit ==
    /\ pc = "start"
    /\ \/ github_url = None /\ file_path = NoPath /\ remote = <<>>
       \/ /\ github_url = Url /\ file_path = NoPath
          /\ remote \in {s \in SeqsUpTo(RemoteFiles, MaxFiles) :
                           \A i, j \in DOMAIN s : i # j => s[i] # s[j]}
       \/ github_url = None /\ file_path \in RemoteFiles /\ remote = <<>>
    /\ repo_path = None /\ tempdirs = {} /\ code_files = <<>> /\ idx = 1
    /\ result = <<>> /\ kickoffs = <<>> /\ warned = {} /\ reports = {}
    /\ clock = 0 /\ exc = "none" /\ outcome = "running" /\ retval = <<>>

\* run() leaves the state of the other specifications alone
RunFrame == UNCHANGED <<crew_vars, clean_vars, report_vars>>

\* lines 119-123: the argument check and Codesystem(), whose _load_yaml may raise
Start ==
    /\ RunFrame
    /\ pc = "start"
    /\ IF github_url = None /\ file_path = NoPath
       THEN exc' = "ValueError" /\ pc' = "finally"
       ELSE \E loaded \in BOOLEAN :
              IF loaded
              THEN exc' = exc /\ pc' = (IF github_url # None THEN "clone" ELSE "single")
              ELSE exc' = "ConfigError" /\ pc' = "finally"
    /\ UNCHANGED <<github_url, file_path, remote, repo_path, tempdirs, code_files, idx,
                   result, kickoffs, warned, reports, clock, outcome, retval>>

\* line 127 and clone_github_repo, lines 13-24: mkdtemp, then the clone, whose
\* failure is re-raised without removing the directory
Clone ==
    /\ RunFrame
    /\ pc = "clone"
    /\ tempdirs' = tempdirs \cup {TempDir}
    /\ \E cloned \in BOOLEAN :
         IF cloned
         THEN repo_path' = TempDir /\ exc' = exc /\ pc' = "walk"
         ELSE repo_path' = repo_path /\ exc' = "CloneError" /\ pc' = "finally"
    /\ UNCHANGED <<github_url, file_path, remote, code_files, idx, result, kickoffs,
                   warned, reports, clock, outcome, retval>>

\* line 130
GetCodeFiles ==
    /\ RunFrame
    /\ pc = "walk"
    /\ code_files' = get_code_files(repo_path, remote)
    /\ idx' = 1
    /\ pc' = "loop"
    /\ UNCHANGED <<github_url, file_path, remote, repo_path, tempdirs, result, kickoffs,
                   warned, reports, clock, exc, outcome, retval>>

\* lines 133-144: one iteration of the loop over code_files
ProcessFile ==
    /\ RunFrame
    /\ pc = "loop" /\ idx <= Len(code_files)
    /\ file_path' = code_files[idx]
    /\ \E code_content \in ReadOutcomes :
         /\ warned' = IF code_content = None THEN warned \cup {code_files[idx]} ELSE warned
         /\ IF Truthy(code_content)
            THEN \E out \in PipelineOutcomes, now \in clock..MaxClock :
                   /\ Kickoff(code_files[idx], code_content, out, now)
                   /\ pc' = AfterKickoff(out)
                   /\ IF out = "raise"
                      THEN exc' = "WorkerError" /\ UNCHANGED <<result, idx>>
                      ELSE /\ exc' = exc
                           /\ result' = AssignResult(result,
                                           [from |-> code_files[idx], val |-> out])
                           /\ idx' = idx + 1
            ELSE /\ idx' = idx + 1
                 /\ UNCHANGED <<pc, exc, result, kickoffs, reports, clock>>
    /\ UNCHANGED <<github_url, remote, repo_path, tempdirs, code_files, outcome, retval>>

\* line 146: `return result`, an UnboundLocalError when no iteration assigned it
ReturnResult ==
    /\ RunFrame
    /\ pc = "loop" /\ idx > Len(code_files)
    /\ IF result = <<>>
       THEN exc' = "UnboundLocalError" /\ retval' = retval
       ELSE exc' = exc /\ retval' = result
    /\ pc' = "finally"
    /\ UNCHANGED <<github_url, file_path, remote, repo_path, tempdirs, code_files, idx,
                   result, kickoffs, warned, reports, clock, outcome>>

\* lines 149-155: the single-file path; the content is not tested before kickoff
SingleFile ==
    /\ RunFrame
    /\ pc = "single"
    /\ \E code_content \in ReadOutcomes, out \in PipelineOutcomes, now \in clock..MaxClock :
         /\ warned' = IF code_content = None THEN warned \cup {file_path} ELSE warned
         /\ Kickoff(file_path, code_content, out, now)
         /\ IF out = "raise"
            THEN exc' = "WorkerError" /\ retval' = retval
            ELSE exc' = exc /\ retval' = <<[from |-> file_path, val |-> out]>>
    /\ pc' = "finally"
    /\ UNCHANGED <<github_url, file_path, remote, repo_path, tempdirs, code_files, idx,
                   result, outcome>>

\* lines 157-165: the finally clause; the exception in flight, if any, goes on
Cleanup ==
    /\ RunFrame
    /\ pc = "finally"
    /\ tempdirs' = IF repo_path # None /\ repo_path \in tempdirs
                   THEN tempdirs \ {repo_path} ELSE tempdirs
    /\ outcome' = IF exc = "none" THEN "returned" ELSE "raised"
    /\ pc' = "done"
    /\ UNCHANGED <<github_url, file_path, remote, repo_path, code_files, idx, result,
                   kickoffs, warned, reports, clock, exc, retval>>

Init == RunInit /\ CrewIdle /\ CleanIdle /\ ReportIdle

Next ==
    \/ Start
    \/ Clone
    \/ GetCodeFiles
    \/ ProcessFile
    \/ ReturnResult
    \/ SingleFile
    \/ Cleanup

Spec == Init /\ [][Next]_vars

\* ------------------------------------------------------ properties of run()
Batch == github_url # None

\* C6: in a batch run every unit whose pipeline returned a non-empty result
\* has an artifact of its own in the reports directory: no later unit's
\* report was written to the same path.
C6_OneArtifactPerUnit ==
    Batch =>
      \A i \in DOMAIN kickoffs :
        kickoffs[i].out = "text" =>
          \E f \in reports : f.from = kickoffs[i].file_name

\* C7: abort on error.  Once the pipeline has raised for unit uk of a batch:
\* uk is the last unit the pipeline was called for and has no artifact, no
\* unit after uk was attempted, run() is on its way out and ends raising;
\* the raising step and every later step leave the reports directory as it
\* was, and no later step calls the pipeline.
C7_AbortState ==
    (Batch /\ exc = "WorkerError") =>
      LET k == Len(kickoffs)
      IN  /\ k >= 1
          /\ kickoffs[k].out = "raise"
          /\ idx <= Len(code_files)
          /\ kickoffs[k].file_name = code_files[idx]
          /\ \A f \in reports : f.from # code_files[idx]
          /\ \A i \in 1..k : \E j \in 1..idx : code_files[j] = kickoffs[i].file_name
          /\ pc \in {"finally", "done"}
          /\ pc = "done" => outcome = "raised"

C7_AbortStep ==
    (Batch /\ exc' = "WorkerError") =>
      /\ reports' = reports
      /\ exc = "WorkerError" => kickoffs' = kickoffs

\* C7: the abort state holds throughout and every step is an abort step
C7_AbortOnError == [](C7_AbortState) /\ [][C7_AbortStep]_vars

\* C7 witness: unit 2 of a batch of 3 raised after unit 1's artifact was
\* written; run() has ended and unit 3 was never attempted.
C7_Witness ==
    /\ Batch /\ pc = "done" /\ exc = "WorkerError"
    /\ Len(code_files) = 3 /\ idx = 2
    /\ \E f \in reports : f.from = code_files[1]

\* C8: a unit whose file could not be read is never handed to the pipeline
\* and gets no artifact, on the batch path and on the single-file path.
C8_UnreadableSkipped ==
    /\ \A i \in DOMAIN kickoffs :
         kickoffs[i].code # None /\ kickoffs[i].file_name \notin warned
    /\ \A f \in reports : f.from \notin warned

\* C9: when run() has exited, no temporary directory is left on disk.
C9_TempDirRemoved == pc = "done" => tempdirs = {}

\* C10: a batch run whose clone succeeded and whose pipeline never raised
\* hands only files with non-empty content to the pipeline; it returns the
\* result of the last unit processed, and with no unit processed it ends with
\* an UnboundLocalError, the temporary directory already removed.
C10_BatchResult ==
    (Batch /\ pc = "done" /\ repo_path # None /\ exc # "WorkerError") =>
      /\ \A i \in DOMAIN kickoffs : kickoffs[i].code = "code"
      /\ IF kickoffs = <<>>
         THEN /\ outcome = "raised" /\ exc = "UnboundLocalError"
              /\ retval = <<>>
              /\ repo_path \notin tempdirs
         ELSE LET last == kickoffs[Len(kickoffs)]
              IN  /\ outcome = "returned" /\ exc = "none"
                  /\ retval = <<[from |-> last.file_name, val |-> last.out]>>

\* C10 witness: a batch of three files ended with two units processed and
\* one skipped with a warning; the second processed unit's result is returned.
C10_Witness ==
    /\ Batch /\ pc = "done" /\ outcome = "returned"
    /\ Len(code_files) = 3 /\ Len(kickoffs) = 2 /\ warned # {}
    /\ retval[1].from = kickoffs[2].file_name

\* ===================================================== Codesystem.crew()
TaskNames == {"A", "B", "C"}
AgentNames == {"analyst"}

\* One entry of tasks.yaml: the key, the agent and, when the 'dependencies'
\* key is present, the list of dependency names, which may name any task of
\* the mapping, the task itself, or no task.
DepChoices ==
    [has_deps : {TRUE}, dependencies : SeqsUpTo(TaskNames, MaxDeps)]
    \cup [has_deps : {FALSE}, dependencies : {<<>>}]

\* the keys of a mapping in iteration order: each key once
KeyOrders ==
    {o \in SeqsUpTo(TaskNames, Cardinality(TaskNames)) :
       \A i, j \in DOMAIN o : i # j => o[i] # o[j]}

\* the position of the task called n in the mapping, 0 when there is none
DeclIndex(n) ==
    IF \E i \in DOMAIN tasks_config : tasks_config[i].name = n
    THEN CHOOSE i \in DOMAIN tasks_config : tasks_config[i].name = n
    ELSE 0

\* a resolution against every task of the mapping, built yet or not (not the
\* code's)
ResolveAnywhere(task_config, task_outputs) ==
    LET named == SelectSeq(task_config.dependencies, LAMBDA d : DeclIndex(d) # 0)
    IN  [k \in 1..Len(named) |-> DeclIndex(named[k])]

\* crew.py lines 86-90: the units of the dependency names already registered.
\* A unit is a Task object, named here by the iteration that created it.
ResolveDeps(task_config, task_outputs) ==
    IF task_config.has_deps
    THEN LET found == SelectSeq(task_config.dependencies,
                                LAMBDA d : d \in DOMAIN task_outputs)
         IN  [k \in 1..Len(found) |-> task_outputs[found[k]]]
    ELSE <<>>

\* an insertion at the front of the list (not the code's)
PrependTask(tasks, task) == <<task>> \o tasks

\* crew.py line 99: tasks.append(task)
AppendTask(tasks, task) == Append(tasks, task)

\* crew.py lines 85-100: the loop from iteration i on; agents[...] raises a
\* KeyError for an agent that is not defined, and crew() returns nothing
RECURSIVE BuildTasks(_, _, _)
BuildTasks(i, tasks, task_outputs) ==
    IF i > Len(tasks_config)
    THEN [status |-> "built", tasks |-> tasks, task_outputs |-> task_outputs]
    ELSE LET task_config == tasks_config[i]
             dependencies == ResolveDeps(task_config, task_outputs)
         IN  IF task_config.agent \notin agents_config
             THEN [status |-> "KeyError", tasks |-> <<>>, task_outputs |-> <<>>]
             ELSE LET task == [id |-> i, agent |-> task_config.agent,
                               dependencies |-> dependencies]
                  IN  BuildTasks(i + 1, AppendTask(tasks, task),
                                 (task_config.name :> i) @@ task_outputs)

CrewInit ==
    /\ \E order \in KeyOrders, agent \in AgentNames :
         \E deps \in [DOMAIN order -> DepChoices] :
           tasks_config = [i \in DOMAIN order |->
                             [name |-> order[i], agent |-> agent,
                              has_deps |-> deps[i].has_deps,
                              dependencies |-> deps[i].dependencies]]
    /\ agents_config \in SUBSET AgentNames
    /\ crew_out = [status |-> "not_built", tasks |-> <<>>, task_outputs |-> <<>>]

\* crew.py lines 69-109
BuildCrew ==
    /\ crew_out.status = "not_built"
    /\ crew_out' = BuildTasks(1, <<>>, <<>>)
    /\ UNCHANGED <<tasks_config, agents_config, run_vars, clean_vars, report_vars>>

InitCrew == CrewInit /\ RunIdle /\ CleanIdle /\ ReportIdle

NextCrew == BuildCrew

SpecCrew == InitCrew /\ [][NextCrew]_vars

\* ----------------------------------------------------- properties of crew()
Range(s) == {s[k] : k \in DOMAIN s}

AgentsResolve == \A i \in DOMAIN tasks_config : tasks_config[i].agent \in agents_config

\* the units the unit created for declaration i depends on
DepsOfUnit(i) ==
    UNION {Range(u.dependencies) : u \in {t \in Range(crew_out.tasks) : t.id = i}}

\* the declarations before i whose names task i declares as dependencies
EarlierDeclared(i) ==
    {j \in 1..(i - 1) :
       /\ tasks_config[i].has_deps
       /\ tasks_config[j].name \in Range(tasks_config[i].dependencies)}

RECURSIVE TransitiveClosure(_)
TransitiveClosure(R) ==
    LET step == R \cup {<<x[1][1], x[2][2]>> : x \in {y \in R \X R : y[1][2] = y[2][1]}}
    IN  IF step = R THEN R ELSE TransitiveClosure(step)

DependsOn == {<<i, j>> \in (DOMAIN tasks_config) \X (DOMAIN tasks_config) : j \in DepsOfUnit(i)}

\* C1: when every agent resolves, crew() builds the plan without an error,
\* the unit of declaration i depends on exactly the units of the declared
\* dependency names that belong to declarations before i (later ones, the
\* task itself and unknown names are left out), and no unit depends on
\* itself, directly or transitively.
C1_DepsAreEarlierDeclarations ==
    (crew_out.status # "not_built" /\ AgentsResolve) =>
      /\ crew_out.status = "built"
      /\ \A i \in DOMAIN tasks_config : DepsOfUnit(i) = EarlierDeclared(i)
      /\ \A i \in DOMAIN tasks_config : <<i, i>> \notin TransitiveClosure(DependsOn)

\* C1 witness: a built plan of three units in which one task declares both a
\* later task and an earlier one, and a chain of two dependencies exists.
C1_Witness ==
    /\ crew_out.status = "built" /\ Len(tasks_config) = 3
    /\ \E i \in DOMAIN tasks_config :
         /\ DepsOfUnit(i) # {}
         /\ \E d \in Range(tasks_config[i].dependencies) : DeclIndex(d) > i
    /\ \E i, j, k \in DOMAIN tasks_config : j \in DepsOfUnit(i) /\ k \in DepsOfUnit(j)

\* C2: when every agent resolves, the task list handed to the Crew has one
\* unit per task definition, the unit at position i being the one created for
\* declaration i, and the returned map has exactly the task names as keys,
\* each mapped to the unit at its declaration's position.
C2_PlanInDeclarationOrder ==
    (crew_out.status # "not_built" /\ AgentsResolve) =>
      /\ crew_out.status = "built"
      /\ Len(crew_out.tasks) = Len(tasks_config)
      /\ \A i \in DOMAIN tasks_config :
           /\ crew_out.tasks[i].id = i
           /\ crew_out.tasks[i].agent = tasks_config[i].agent
      /\ DOMAIN crew_out.task_outputs = {tasks_config[i].name : i \in DOMAIN tasks_config}
      /\ \A i \in DOMAIN tasks_config :
           crew_out.task_outputs[tasks_config[i].name] = crew_out.tasks[i].id

\* C2 witness: a plan of three units was built.
C2_Witness ==
    /\ crew_out.status = "built"
    /\ Len(tasks_config) = 3 /\ Len(crew_out.tasks) = 3

\* ============================================================ clean_text
\* the characters clean_text treats specially, and an ordinary one
TextAlphabet == {"a", "n", "t", BS, LF, CR, SP}

CleanInit ==
    /\ text \in SeqsUpTo(TextAlphabet, MaxTextLen)
    /\ once = <<>> /\ twice = <<>> /\ applied = 0

\* clean_text(text)
CleanOnce ==
    /\ applied = 0
    /\ once' = clean_text(text)
    /\ applied' = 1
    /\ UNCHANGED <<text, twice, run_vars, crew_vars, report_vars>>

\* clean_text applied to its own result
CleanAgain ==
    /\ applied = 1
    /\ twice' = clean_text(once)
    /\ applied' = 2
    /\ UNCHANGED <<text, once, run_vars, crew_vars, report_vars>>

InitClean == CleanInit /\ RunIdle /\ CrewIdle /\ ReportIdle

NextClean ==
    \/ CleanOnce
    \/ CleanAgain

SpecClean == InitClean /\ [][NextClean]_vars

\* C3: clean_text is idempotent: applying it to its own result changes nothing.
C3_CleanTextIdempotent == applied = 2 => twice = once

\* ================================ save_report and generate_docx_report
\* A written document is the sequence of its elements: headings of level 0
\* and 1 and paragraphs, each with its text.
Heading(level, t) == [kind |-> IF level = 0 THEN "heading0" ELSE "heading1", text |-> t]
Paragraph(t) == [kind |-> "paragraph", text |-> t]

\* a test without the strip, `if section:` (not the code's)
OnlyEmptyIsBlank(section) == section = <<>>

\* crew.py line 55, `if section.strip():` fails for a blank section
IsBlank(section) == Strip(section) = <<>>

\* crew.py lines 55-61: what one section after the first adds to the document
SectionElements(section) ==
    IF IsBlank(section) THEN <<>>
    ELSE LET lines == SplitOnce(section, <<LF>>)
         IN  <<Heading(1, lines[1])>>
             \o (IF Len(lines) > 1 THEN <<Paragraph(lines[2])>> ELSE <<>>)

RECURSIVE AddSections(_)
AddSections(sections) ==
    IF sections = <<>> THEN <<>>
    ELSE SectionElements(Head(sections)) \o AddSections(Tail(sections))

\* crew.py lines 42-61: the document save_report writes for content
save_report(text_content) ==
    LET sections == SplitAll(text_content, <<LF, "#", SP>>)
    IN  <<Heading(0, <<"Code Analysis Report">>), Paragraph(sections[1])>>
        \o AddSections(Tail(sections))

NoOutput ==
    <<"N", "o", SP, "o", "u", "t", "p", "u", "t", SP,
      "a", "v", "a", "i", "l", "a", "b", "l", "e">>

\* dict.get(key, default)
Get(mapping, key, default) == IF key \in DOMAIN mapping THEN mapping[key] ELSE default

\* main.py lines 95-111: the headings and the keys read, in order
ReportSections ==
    << <<"Code Analysis Output", "code_analysis_output">>,
       <<"Security Analysis Output", "security_analysis_output">>,
       <<"Performance Analysis Output", "performance_analysis_output">>,
       <<"Architecture Analysis Output", "code_test_output">>,
       <<"Best Practices Output", "best_practices_output">> >>

RECURSIVE AddOutputs(_, _)
AddOutputs(mapping, k) ==
    IF k > Len(ReportSections) THEN <<>>
    ELSE <<Heading(1, <<ReportSections[k][1]>>),
           Paragraph(clean_text(Get(mapping, ReportSections[k][2], NoOutput)))>>
         \o AddOutputs(mapping, k + 1)

\* main.py lines 86-114: the document generate_docx_report writes
generate_docx_report(mapping) ==
    <<Heading(0, <<"Generated Report">>),
      Paragraph(<<"File: ">> \o Get(mapping, "file_name", <<"None">>))>>
    \o AddOutputs(mapping, 1)

\* the characters save_report's splitting looks at, and an ordinary one
ContentAlphabet == {"a", "#", LF, SP}

OutputKeys == {ReportSections[k][2] : k \in DOMAIN ReportSections}

\* the output keys an inputs mapping holds: none, one, or all of them
KeySets == {{}, {"security_analysis_output"}, OutputKeys}

ReportInit ==
    /\ content \in SeqsUpTo(ContentAlphabet, MaxContentLen)
    /\ inputs = <<>> /\ doc = <<>> /\ written_by = "none"

\* Codesystem.save_report(content, ...)
SaveReport ==
    /\ written_by = "none"
    /\ doc' = save_report(content)
    /\ written_by' = "save_report"
    /\ UNCHANGED <<content, inputs, run_vars, crew_vars, clean_vars>>

\* generate_docx_report(inputs, ...), every output present being content
GenerateDocxReport ==
    /\ written_by = "none"
    /\ \E present \in KeySets :
         inputs' = [k \in present \cup {"file_name"} |->
                      IF k = "file_name" THEN <<"a", ".", "p", "y">> ELSE content]
    /\ doc' = generate_docx_report(inputs')
    /\ written_by' = "generate_docx_report"
    /\ UNCHANGED <<content, run_vars, crew_vars, clean_vars>>

InitReport == ReportInit /\ RunIdle /\ CrewIdle /\ CleanIdle

NextReport ==
    \/ SaveReport
    \/ GenerateDocxReport

SpecReport == InitReport /\ [][NextReport]_vars

\* ------------------------------------------- properties of the documents
\* The chunks of a text, read off the positions of the heading marker (a
\* line feed, '#', a space; two occurrences cannot overlap).
MarkerStarts(s) == {i \in 1..(Len(s) - 2) : s[i] = LF /\ s[i + 1] = "#" /\ s[i + 2] = SP}

\* the k-th least element of a set of numbers
Nth(S, k) == CHOOSE i \in S : Cardinality({j \in S : j < i}) = k - 1

LeadOf(s) ==
    IF MarkerStarts(s) = {} THEN s ELSE SubSeq(s, 1, Nth(MarkerStarts(s), 1) - 1)

\* the text between the k-th marker and the next one (or the end)
ChunkOf(s, k) ==
    LET n == Cardinality(MarkerStarts(s))
        from == Nth(MarkerStarts(s), k) + 3
        to == IF k < n THEN Nth(MarkerStarts(s), k + 1) - 1 ELSE Len(s)
    IN  SubSeq(s, from, to)

Chunks(s) == [k \in 1..Cardinality(MarkerStarts(s)) |-> ChunkOf(s, k)]

FirstLineFeed(c) ==
    IF \E i \in DOMAIN c : c[i] = LF
    THEN CHOOSE i \in DOMAIN c : c[i] = LF /\ \A j \in 1..(i - 1) : c[j] # LF
    ELSE 0

\* the section a chunk stands for: its first line, and what follows it
SectionOf(c) ==
    LET i == FirstLineFeed(c)
    IN  IF i = 0 THEN [title |-> c, body |-> <<>>]
        ELSE [title |-> SubSeq(c, 1, i - 1), body |-> SubSeq(c, i + 1, Len(c))]

HasText(c) == \E i \in DOMAIN c : c[i] \notin Whitespace

\* the titled sections of a document: each level-1 heading with the
\* paragraph that follows it, if one does
HeadingPositions(d) == {i \in DOMAIN d : d[i].kind = "heading1"}

TitledSections(d) ==
    [k \in 1..Cardinality(HeadingPositions(d)) |->
       LET i == Nth(HeadingPositions(d), k)
       IN  [title |-> d[i].text,
            body |-> IF i < Len(d) /\ d[i + 1].kind = "paragraph"
                     THEN d[i + 1].text ELSE <<>>]]

\* a document made of the title, the lead paragraph, and titled sections only
WellFormed(d) ==
    /\ Len(d) >= 2
    /\ d[1] = Heading(0, <<"Code Analysis Report">>)
    /\ d[2].kind = "paragraph"
    /\ \A i \in 3..Len(d) :
         \/ d[i].kind = "heading1"
         \/ d[i].kind = "paragraph" /\ d[i - 1].kind = "heading1"

IsNormalised(b) ==
    /\ \A i \in DOMAIN b : b[i] # CR
    /\ \A i \in 1..(Len(b) - 1) :
         /\ ~(b[i] = BS /\ b[i + 1] \in {"n", "t"})
         /\ ~(b[i] = LF /\ b[i + 1] = LF)
    /\ b = <<>> \/ (b[1] \notin Whitespace /\ b[Len(b)] \notin Whitespace)

\* C5: every section body written, by save_report and by
\* generate_docx_report, is normalised text.
C5_BodiesNormalised ==
    written_by # "none" =>
      \A k \in DOMAIN TitledSections(doc) : IsNormalised(TitledSections(doc)[k].body)

====
